---- MODULE Spec2Model ----
(***************************************************************************)
(* Streaming conversation engine of orchestrate.chat:                      *)
(*   getChatCompletionStream (lib/openrouter.ts), the persistence calls of *)
(*   lib/supabase.ts and the handlers of components/ChatComponent.tsx.     *)
(*                                                                         *)
(* Text is a sequence of tokens (a token stands for a run of characters,   *)
(* StrLen gives its number of characters); '' is <<>>.  The response body  *)
(* is a sequence of wire symbols, read in chunks.  Identifiers are         *)
(* positive integers, 0 is null/undefined.  Array indices given to         *)
(* handlers are 0-based as in the source.                                  *)
(***************************************************************************)
EXTENDS Integers, Sequences, FiniteSets, Bags, TLC

\* ------------------------------------------------------------------ bounds
MaxOps == 2          \* handler invocations (submit / retry) that may overlap
TurnOps == 1         \* handler invocations when one turn is followed in full
MaxReads == 2        \* chunks the network delivers when one turn is followed
RaceReads == 1       \* chunks the network delivers when invocations overlap
MaxFaults == 1       \* failing calls (store, key, HTTP, network) per behaviour
MaxUserOps == 1      \* delete / select / new-chat clicks per behaviour
MaxBodyLines == 3    \* lines of a response body whose every chunking is followed

\* ------------------------------------------------------- program constants
CheckpointEvery == 100
DefaultModel == "google/gemini-2.0-flash-001"

StoppedSuffix == "\n\n_Generation stopped._"
ErrorSuffix == "\n\n_Error: Message streaming was interrupted._"
StoppedNotice == "Generation stopped."
ErrorNotice == "Sorry, there was an error processing your request."
SearchingPlaceholder == "Searching the web..."
RegeneratingPlaceholder == "Regenerating..."
CitationsHeader == "\n\n**Citations:**\n"
WebSearchCommand == "/websearch"

\* ------------------------------------------------------------------- text
\* String.length of one token.
TokLen(t) ==
  CASE t = StoppedSuffix -> 23
    [] t = ErrorSuffix -> 45
    [] t = StoppedNotice -> 19
    [] t = ErrorNotice -> 50
    [] t = SearchingPlaceholder -> 20
    [] t = RegeneratingPlaceholder -> 15
    [] t = CitationsHeader -> 17
    [] t = WebSearchCommand -> 10
    [] t = "Par" -> 3
    [] t = "L97" -> 97
    [] t = "Old" -> 3
    [] t = "] " -> 2
    [] t = ": " -> 2
    [] OTHER -> 1

RECURSIVE StrLen(_)
StrLen(s) == IF s = <<>> THEN 0 ELSE TokLen(Head(s)) + StrLen(Tail(s))

IsSpace(c) == c \in {" ", "\r", "\n"}

RECURSIVE TrimLeft(_)
TrimLeft(s) == IF s # <<>> /\ IsSpace(Head(s)) THEN TrimLeft(Tail(s)) ELSE s

RECURSIVE TrimRight(_)
TrimRight(s) ==
  IF s # <<>> /\ IsSpace(s[Len(s)]) THEN TrimRight(SubSeq(s, 1, Len(s) - 1)) ELSE s

\* String.prototype.trim
Trim(s) == TrimRight(TrimLeft(s))

\* String.prototype.startsWith
StartsWith(s, pre) == Len(s) >= Len(pre) /\ SubSeq(s, 1, Len(pre)) = pre

\* String.prototype.indexOf('\n'), 1-based; 0 when absent
IndexOfNewline(s) ==
  IF \E i \in 1..Len(s) : s[i] = "\n"
    THEN CHOOSE i \in 1..Len(s) : s[i] = "\n" /\ \A j \in 1..(i - 1) : s[j] # "\n"
    ELSE 0

\* ------------------------------------------------------------ wire format
DataPrefix == <<"data:", " ">>
DoneToken == <<"[DONE]">>

\* The events the server may send: delta.content ('' when absent),
\* delta.annotations, delta.citations and the model the server declares.
Events ==
  [ eP  |-> [content |-> <<"Par">>, model |-> "srv", annotations |-> <<>>, citations |-> <<>>],
    eL  |-> [content |-> <<"L97">>, model |-> "srv", annotations |-> <<>>, citations |-> <<>>],
    eA  |-> [content |-> <<>>, model |-> "srv",
             annotations |-> << [type |-> "url_citation", title |-> "t1", url |-> "u1", content |-> "x1"],
                                [type |-> "url_citation", title |-> "t2", url |-> "u2", content |-> "x2"] >>,
             citations |-> <<>>],
    eC  |-> [content |-> <<>>, model |-> "srv", annotations |-> <<>>,
             citations |-> << [title |-> "t3", url |-> "u3", text |-> "x3", number |-> 1],
                              [title |-> "t1b", url |-> "u1", text |-> "x1b", number |-> 2] >>] ]

EventIds == DOMAIN Events

\* The text of an event on the wire.
Serialize(id) == <<"{", id, "}">>

\* a parser that also accepts a payload cut short
ParseJSONLenient(data) ==
  LET d == Trim(data)
  IN IF Len(d) >= 2 /\ d[1] = "{" /\ d[2] \in EventIds
       THEN [ok |-> TRUE, id |-> d[2]]
       ELSE [ok |-> FALSE, id |-> "none"]

\* JSON.parse of a payload: the event, or "throw".
ParseJSON(data) ==
  LET d == Trim(data)
  IN IF Len(d) = 3 /\ d[1] = "{" /\ d[3] = "}" /\ d[2] \in EventIds
       THEN [ok |-> TRUE, id |-> d[2]]
       ELSE [ok |-> FALSE, id |-> "none"]

\* ------------------------------------------------------------------ state
VARIABLES
  messages,            \* useState<ChatMessage[]>: the transcript on screen
  isLoading,           \* useState<boolean>
  isSubmitting,        \* useState<boolean>
  activeChatId,        \* useState<string | null>, 0 is null
  abortController,     \* useState<AbortController | null>: the invocation owning it, 0 is null
  streamingMessageId,  \* useState<string | null>, 0 is null
  selectedModel,       \* useState<string>
  procs,               \* the invocations of handleStreamingSubmit / handleRetryMessage
  writes,              \* updateStreamingMessage calls issued and not yet completed
  loads,               \* loadChatMessages calls issued and not yet completed
  edits,               \* Save clicks of the edit box whose write has not returned yet
  db,                  \* the rows of table chats, in created_at order
  nextId,              \* next messageid / chatid the store allocates
  budget               \* what the environment may still do: invocations (ops), chunks
                       \* (reads), failing calls (faults), other clicks (userOps)

vars == << messages, isLoading, isSubmitting, activeChatId, abortController,
           streamingMessageId, selectedModel, procs, writes, loads, edits, db,
           nextId, budget >>

Procs == 1..MaxOps

\* The component state as one value, so that a callback is a function on it.
World ==
  [ messages |-> messages, isLoading |-> isLoading, isSubmitting |-> isSubmitting,
    activeChatId |-> activeChatId, abortController |-> abortController,
    streamingMessageId |-> streamingMessageId, selectedModel |-> selectedModel,
    procs |-> procs, writes |-> writes, loads |-> loads, edits |-> edits,
    db |-> db, nextId |-> nextId, budget |-> budget ]

\* useEffect([activeChatId, isSubmitting]): after a render in which one of the
\* two changed, load the active chat unless a submission is in progress.
AfterRender(w) ==
  IF << w.activeChatId, w.isSubmitting >> # << activeChatId, isSubmitting >>
     /\ w.activeChatId # 0 /\ ~w.isSubmitting
    THEN [w EXCEPT !.loads = @ \cup {[chatId |-> w.activeChatId, phase |-> "issued", rows |-> <<>>]}]
    ELSE w

Commit(w0) ==
  LET w == AfterRender(w0)
  IN /\ messages' = w.messages
     /\ isLoading' = w.isLoading
     /\ isSubmitting' = w.isSubmitting
     /\ activeChatId' = w.activeChatId
     /\ abortController' = w.abortController
     /\ streamingMessageId' = w.streamingMessageId
     /\ selectedModel' = w.selectedModel
     /\ procs' = w.procs
     /\ writes' = w.writes
     /\ loads' = w.loads
     /\ edits' = w.edits
     /\ db' = w.db
     /\ nextId' = w.nextId
     /\ budget' = w.budget

\* An invocation that has not been made yet.
NoProc ==
  [ kind |-> "none", pc |-> "idle", chatId |-> 0, isWebSearch |-> FALSE,
    display |-> <<>>, history |-> <<>>, model |-> "", index |-> 0,
    messageId |-> 0, aborted |-> FALSE, listening |-> FALSE, buffer |-> <<>>,
    body |-> <<>>, received |-> <<>>, acc |-> <<>>, cites |-> <<>>, calls |-> <<>> ]

\* ----------------------------------------------------------- persistence
HasRow(rows, id) == \E i \in 1..Len(rows) : rows[i].messageid = id

\* supabase.from('chats').insert(...) as done by saveMessage / saveStreamingMessage
InsertRow(w, chatId, message, source) ==
  [w EXCEPT !.db = Append(@, [messageid |-> w.nextId, chatid |-> chatId,
                              message |-> message, source |-> source]),
            !.nextId = @ + 1]

\* updateStreamingMessage: .update({ message: content }).eq('messageid', messageId)
UpdateRow(rows, id, content) ==
  [i \in 1..Len(rows) |-> IF rows[i].messageid = id
                            THEN [rows[i] EXCEPT !.message = content] ELSE rows[i]]

\* deleteMessage: .delete().eq('messageid', messageId)
DeleteRow(rows, id) == SelectSeq(rows, LAMBDA r : r.messageid # id)

\* getChatMessages: .select('*').eq('chatid', chatId).order('created_at')
ChatRows(rows, chatId) == SelectSeq(rows, LAMBDA r : r.chatid = chatId)

\* a conversion that takes every row for an answer
RowToMessageAsAssistant(r) ==
  [ role |-> "assistant", content |-> r.message, model |-> r.source,
    messageid |-> r.messageid, citations |-> <<>> ]

\* loadChatMessages: the mapping of a row to a ChatMessage
RowToMessage(r) ==
  [ role |-> IF r.source = "user" THEN "user" ELSE "assistant",
    content |-> r.message,
    model |-> IF r.source # "user" THEN r.source ELSE "",
    messageid |-> r.messageid,
    citations |-> <<>> ]

MapRows(rows) == [i \in 1..Len(rows) |-> RowToMessage(rows[i])]

\* A call of updateStreamingMessage leaves the component.
IssueWrite(w, p, id, content, kind) ==
  [w EXCEPT !.writes = @ (+) SetToBag({[messageid |-> id, content |-> content,
                                        proc |-> p, kind |-> kind]})]

\* -------------------------------------------------------------- citations
HasUrl(cites, url) == \E i \in 1..Len(cites) : cites[i].url = url

\* onChunk, annotations.forEach: a url_citation not yet collected is pushed
\* with number = collectedCitations.length + 1
RECURSIVE MergeAnnotations(_, _)
MergeAnnotations(cites, annotations) ==
  IF annotations = <<>> THEN cites
  ELSE LET a == Head(annotations)
       IN MergeAnnotations(
            IF a.type = "url_citation" /\ ~HasUrl(cites, a.url)
              THEN Append(cites, [title |-> a.title, url |-> a.url, text |-> a.content,
                                  number |-> Len(cites) + 1])
              ELSE cites,
            Tail(annotations))

\* a merge that pushes every citation it is given
MergeCitationsAll(cites, delta) == cites \o delta

\* onChunk, citationsDelta.forEach: a citation not yet collected is pushed as received
RECURSIVE MergeCitations(_, _)
MergeCitations(cites, delta) ==
  IF delta = <<>> THEN cites
  ELSE MergeCitations(IF ~HasUrl(cites, Head(delta).url) THEN Append(cites, Head(delta)) ELSE cites,
                      Tail(delta))

\* Array.prototype.sort((a, b) => a.number - b.number), which is stable
RECURSIVE InsertByNumber(_, _)
InsertByNumber(sorted, c) ==
  IF sorted = <<>> THEN <<c>>
  ELSE IF sorted[Len(sorted)].number <= c.number THEN Append(sorted, c)
  ELSE Append(InsertByNumber(SubSeq(sorted, 1, Len(sorted) - 1), c), sorted[Len(sorted)])

RECURSIVE SortByNumber(_)
SortByNumber(cites) ==
  IF cites = <<>> THEN <<>>
  ELSE InsertByNumber(SortByNumber(SubSeq(cites, 1, Len(cites) - 1)), cites[Len(cites)])

\* Number.prototype.toString for the small numbers that occur
NumStr(n) ==
  CASE n = 1 -> "1" [] n = 2 -> "2" [] n = 3 -> "3" [] n = 4 -> "4" [] OTHER -> "n"

\* onDone: `[${index + 1}] ${citation.title}: ${citation.url}\n` for each sorted citation
RECURSIVE CitationLines(_, _)
CitationLines(sorted, index) ==
  IF index >= Len(sorted) THEN <<>>
  ELSE << "[", NumStr(index + 1), "] ", sorted[index + 1].title, ": ",
          sorted[index + 1].url, "\n" >> \o CitationLines(sorted, index + 1)

\* onDone of submit: the content with the Citations block
FinalContent(acc, cites, isWebSearch) ==
  IF Len(cites) > 0 /\ isWebSearch
    THEN acc \o <<CitationsHeader>> \o CitationLines(SortByNumber(cites), 0)
    ELSE acc

\* ---------------------------------------------------------------- errors
AbortError == [name |-> "AbortError", message |-> "The user aborted a request."]
RequestAborted == [name |-> "Error", message |-> "Request aborted"]
ApiError == [name |-> "Error", message |-> "OpenRouter API error"]
NetworkError == [name |-> "TypeError", message |-> "network error"]

\* a classification by the error's name alone
WasAbortedByName(error) == error.name = "AbortError"

\* onError: const wasAborted = ...
WasAborted(error) == error.name = "AbortError" \/ error.message = "Request aborted"

\* a seal that always appends the suffix
SealedContentAppended(acc, wasAborted) ==
  acc \o << IF wasAborted THEN StoppedSuffix ELSE ErrorSuffix >>

\* onError: the content a failed or stopped stream is sealed with
SealedContent(acc, wasAborted) ==
  IF acc # <<>>
    THEN acc \o << IF wasAborted THEN StoppedSuffix ELSE ErrorSuffix >>
    ELSE << IF wasAborted THEN StoppedNotice ELSE ErrorNotice >>

\* ------------------------------------------------- callbacks of a submit
\* setIsLoading(false); setStreamingMessageId(null); setAbortController(null);
\* setIsSubmitting(false)
ResetSubmit(w) ==
  [w EXCEPT !.isLoading = FALSE, !.streamingMessageId = 0, !.abortController = 0,
            !.isSubmitting = FALSE]

\* the periodic checkpoint condition of onChunk
CheckpointDue(acc, messageId) == StrLen(acc) % CheckpointEvery = 0 /\ messageId # 0

\* setMessages of onChunk (submit): the last message, if it is an assistant message
SetLastMessage(msgs, content, model, cites, messageId) ==
  LET last == Len(msgs)
  IN IF last >= 1 /\ msgs[last].role = "assistant"
       THEN [msgs EXCEPT ![last] = [@ EXCEPT !.content = content, !.model = model,
                                              !.citations = cites, !.messageid = messageId]]
       ELSE msgs

\* an onChunk that shows the fragment of the event in place of the accumulated content
OnChunkSubmitFragment(w, p, chunk) ==
  LET pr == w.procs[p]
  IN IF chunk.content # <<>>
       THEN [w EXCEPT !.procs[p].acc = chunk.content,
                      !.messages = SetLastMessage(@, chunk.content, chunk.model, pr.cites,
                                                  pr.messageId)]
       ELSE w

OnChunkSubmit(w, p, chunk) ==
  LET pr == w.procs[p]
      contentDelta == chunk.content
      acc == pr.acc \o contentDelta
      cites == MergeCitations(MergeAnnotations(pr.cites, chunk.annotations), chunk.citations)
      w1 == [w EXCEPT !.procs[p].acc = acc, !.procs[p].cites = cites,
                      !.messages = SetLastMessage(@, acc, chunk.model, cites, pr.messageId)]
  IN IF contentDelta # <<>> \/ Len(chunk.annotations) > 0 \/ Len(chunk.citations) > 0
       THEN IF CheckpointDue(acc, pr.messageId)
              THEN IssueWrite(w1, p, pr.messageId, acc, "periodic")
              ELSE w1
       ELSE w

OnDoneSubmit(w, p) ==
  LET pr == w.procs[p]
      finalContent == FinalContent(pr.acc, pr.cites, pr.isWebSearch)
  IN IF pr.messageId # 0 /\ finalContent # <<>>
       THEN IssueWrite(w, p, pr.messageId,
                       IF pr.isWebSearch THEN finalContent ELSE pr.acc, "final")
       ELSE ResetSubmit(w)

\* setMessages of onError (submit)
SealLastMessage(msgs, content, messageId) ==
  LET last == Len(msgs)
  IN IF last >= 1 /\ msgs[last].role = "assistant"
       THEN [msgs EXCEPT ![last] = [@ EXCEPT !.content = content, !.messageid = messageId]]
       ELSE msgs

\* an error handler that appends an error message of its own
OnErrorSubmitAppended(w, p, error) ==
  ResetSubmit([w EXCEPT !.messages =
                 Append(@, [role |-> "assistant", content |-> <<ErrorNotice>>, model |-> "",
                            citations |-> <<>>, messageid |-> 0])])

OnErrorSubmit(w, p, error) ==
  LET pr == w.procs[p]
      sealed == SealedContent(pr.acc, WasAborted(error))
      w1 == [w EXCEPT !.messages = SealLastMessage(@, sealed, pr.messageId)]
      w2 == IF pr.messageId # 0 THEN IssueWrite(w1, p, pr.messageId, sealed, "seal") ELSE w1
  IN ResetSubmit(w2)

\* -------------------------------------------------- callbacks of a retry
\* setIsLoading(false); setStreamingMessageId(null); setAbortController(null)
ResetRetry(w) ==
  [w EXCEPT !.isLoading = FALSE, !.streamingMessageId = 0, !.abortController = 0]

\* an update that adds the regenerated answer as a new message
SetMessageAtAppended(msgs, index, content, model, messageId) ==
  Append(msgs, [role |-> "assistant", content |-> content, model |-> model,
                messageid |-> messageId, citations |-> <<>>])

\* setMessages of onChunk (retry): the message at index + 1, if it is an assistant message
SetMessageAt(msgs, index, content, model, messageId) ==
  IF index + 1 < Len(msgs) /\ msgs[index + 2].role = "assistant"
    THEN [msgs EXCEPT ![index + 2] = [@ EXCEPT !.content = content, !.model = model,
                                                !.messageid = messageId]]
    ELSE msgs

OnChunkRetry(w, p, chunk) ==
  LET pr == w.procs[p]
      contentDelta == chunk.content
      acc == pr.acc \o contentDelta
      w1 == [w EXCEPT !.procs[p].acc = acc,
                      !.messages = SetMessageAt(@, pr.index, acc, chunk.model, pr.messageId)]
  IN IF contentDelta # <<>>
       THEN IF CheckpointDue(acc, pr.messageId)
              THEN IssueWrite(w1, p, pr.messageId, acc, "periodic")
              ELSE w1
       ELSE w

OnDoneRetry(w, p) ==
  LET pr == w.procs[p]
  IN ResetRetry(IF pr.messageId # 0 /\ pr.acc # <<>>
                  THEN IssueWrite(w, p, pr.messageId, pr.acc, "retryfinal")
                  ELSE w)

\* setMessages of onError (retry)
SealMessageAt(msgs, index, content) ==
  IF index + 1 < Len(msgs) /\ msgs[index + 2].role = "assistant"
    THEN [msgs EXCEPT ![index + 2] = [@ EXCEPT !.content = content]]
    ELSE msgs

\* an error handler that seals the transcript only
OnErrorRetryUnsaved(w, p, error) ==
  LET pr == w.procs[p]
      sealed == SealedContent(pr.acc, WasAborted(error))
  IN ResetRetry([w EXCEPT !.messages = SealMessageAt(@, pr.index, sealed)])

OnErrorRetry(w, p, error) ==
  LET pr == w.procs[p]
      sealed == SealedContent(pr.acc, WasAborted(error))
      w1 == [w EXCEPT !.messages = SealMessageAt(@, pr.index, sealed)]
      w2 == IF pr.messageId # 0 THEN IssueWrite(w1, p, pr.messageId, sealed, "seal") ELSE w1
  IN ResetRetry(w2)

\* ------------------------------------------------ getChatCompletionStream
\* a callback that starts its accumulation afresh on every event
OnChunkLatestOnly(w, p, id) ==
  LET chunk == [Events[id] EXCEPT !.model = w.procs[p].model]
      w1 == [w EXCEPT !.procs[p].calls = Append(@, id), !.procs[p].acc = <<>>]
  IN IF w.procs[p].kind = "submit" THEN OnChunkSubmit(w1, p, chunk)
     ELSE OnChunkRetry(w1, p, chunk)

\* the callbacks the caller passed; calls records every invocation
OnChunk(w, p, id) ==
  LET chunk == [Events[id] EXCEPT !.model = w.procs[p].model]   \* chunk.model = model
      w1 == [w EXCEPT !.procs[p].calls = Append(@, id)]
  IN IF w.procs[p].kind = "submit" THEN OnChunkSubmit(w1, p, chunk)
     ELSE OnChunkRetry(w1, p, chunk)

OnDone(w, p) ==
  LET w1 == [w EXCEPT !.procs[p].calls = Append(@, "done")]
  IN IF w.procs[p].kind = "submit" THEN OnDoneSubmit(w1, p) ELSE OnDoneRetry(w1, p)

OnError(w, p, error) ==
  LET w1 == [w EXCEPT !.procs[p].calls = Append(@, "error")]
  IN IF w.procs[p].kind = "submit" THEN OnErrorSubmit(w1, p, error)
     ELSE OnErrorRetry(w1, p, error)

\* the inner loop: while ((lineEnd = buffer.indexOf('\n')) !== -1) { ... }
RECURSIVE ProcessLines(_, _)
ProcessLines(w, p) ==
  LET buffer == w.procs[p].buffer
      lineEnd == IndexOfNewline(buffer)
  IN IF lineEnd = 0 THEN w
     ELSE LET line == Trim(SubSeq(buffer, 1, lineEnd - 1))
              w1 == [w EXCEPT !.procs[p].buffer = SubSeq(buffer, lineEnd + 1, Len(buffer))]
          IN IF StartsWith(line, DataPrefix)
               THEN LET data == SubSeq(line, Len(DataPrefix) + 1, Len(line))
                        parsed == ParseJSON(data)
                    IN IF data = DoneToken THEN OnDone(w1, p)       \* break
                       ELSE IF parsed.ok THEN ProcessLines(OnChunk(w1, p, parsed.id), p)
                       ELSE ProcessLines(w1, p)                     \* catch (e) {}
               ELSE ProcessLines(w1, p)

\* the function returns; a retry then runs its finally block
Return(w, p) ==
  LET w1 == [w EXCEPT !.procs[p].pc = "end"]
  IN IF w.procs[p].kind = "retry"
       THEN [w1 EXCEPT !.isLoading = FALSE, !.abortController = 0]
       ELSE w1

\* ------------------------------------------------------------------ inputs
\* what the user may type
Texts == { <<"Hi">>, <<WebSearchCommand, " ", "Hi">>, <<WebSearchCommand>>, <<" ">> }

Line(payload) == DataPrefix \o payload \o <<"\n">>

\* chunks of a response body, each one complete line
LineChunks ==
  { Line(Serialize("eP")), Line(Serialize("eL")), Line(Serialize("eA")),
    Line(Serialize("eC")), Line(DoneToken) }

\* the store as the program finds it: one earlier conversation of one turn
InitialRows ==
  << [messageid |-> 2, chatid |-> 1, message |-> <<"Hi">>, source |-> "user"],
     [messageid |-> 3, chatid |-> 1, message |-> <<"Old">>, source |-> "m1"] >>

Init ==
  /\ messages = <<>>
  /\ isLoading = FALSE
  /\ isSubmitting = FALSE
  /\ activeChatId = 0
  /\ abortController = 0
  /\ streamingMessageId = 0
  /\ selectedModel = DefaultModel
  /\ procs = [p \in Procs |-> NoProc]
  /\ writes = EmptyBag
  /\ loads = {}
  /\ edits = {}
  /\ db = InitialRows
  /\ nextId = 4
  /\ budget = [ops |-> TurnOps, reads |-> MaxReads, faults |-> MaxFaults,
               userOps |-> MaxUserOps]

\* ----------------------------------------------------------------- actions
Unused == {p \in DOMAIN procs : procs[p].kind = "none"}
NewProc == CHOOSE p \in Unused : \A q \in Unused : p <= q

UserMessage(content) ==
  [role |-> "user", content |-> content, model |-> "", messageid |-> 0, citations |-> <<>>]

\* handleStreamingSubmit up to its first await:
\* after setIsLoading(true) it awaits saveMessage, or before it createChat
SubmitAccepted(p, messageText, isWebSearch) ==
  LET displayMessageText ==
        IF isWebSearch THEN <<WebSearchCommand, " ">> \o messageText ELSE messageText
      pr == [NoProc EXCEPT !.kind = "submit", !.isWebSearch = isWebSearch,
                           !.display = displayMessageText, !.model = selectedModel,
                           !.history = Append(messages, UserMessage(messageText)),
                           !.chatId = activeChatId]
      w == [World EXCEPT !.isSubmitting = TRUE, !.budget.ops = @ - 1]
  IN IF activeChatId = 0
       THEN [w EXCEPT !.procs[p] = [pr EXCEPT !.pc = "createChat"]]
       ELSE [w EXCEPT !.procs[p] = [pr EXCEPT !.pc = "saveUser"],
                      !.messages = Append(@, UserMessage(displayMessageText)),
                      !.isLoading = TRUE]

Submit(submittedText) ==
  /\ Unused # {} /\ budget.ops > 0
  /\ LET trimmed == Trim(submittedText)
         isWebSearch == StartsWith(trimmed, <<WebSearchCommand>>)
         messageText == IF isWebSearch THEN Trim(SubSeq(trimmed, 2, Len(trimmed))) ELSE trimmed
     IN IF trimmed = <<>> \/ isLoading \/ messageText = <<>>
          THEN UNCHANGED vars
          ELSE Commit(SubmitAccepted(NewProc, messageText, isWebSearch))

\* await createChat() returns
CreateChatReturn(p, ok) ==
  /\ procs[p].pc = "createChat"
  /\ ok \/ budget.faults > 0
  /\ Commit(IF ~ok
              THEN [World EXCEPT !.isSubmitting = FALSE, !.procs[p].pc = "end", !.budget.faults = @ - 1]
              ELSE [World EXCEPT !.activeChatId = nextId, !.nextId = @ + 1,
                                 !.procs[p].chatId = nextId, !.procs[p].pc = "saveUser",
                                 !.messages = Append(@, UserMessage(procs[p].display)),
                                 !.isLoading = TRUE])

\* await saveMessage(currentChatId, displayMessageText, 'user') returns (its
\* result is not used); the placeholder is appended and saveStreamingMessage awaited
SaveUserReturn(p, ok) ==
  /\ procs[p].pc = "saveUser"
  /\ ok \/ budget.faults > 0
  /\ LET pr == procs[p]
         w1 == IF ok THEN InsertRow(World, pr.chatId, pr.display, "user")
               ELSE [World EXCEPT !.budget.faults = @ - 1]
         initialAssistantMessage ==
           [role |-> "assistant",
            content |-> IF pr.isWebSearch THEN <<SearchingPlaceholder>> ELSE <<>>,
            model |-> pr.model, messageid |-> 0, citations |-> <<>>]
     IN Commit([w1 EXCEPT !.messages = Append(@, initialAssistantMessage),
                          !.procs[p].pc = "saveAsst"])

\* await saveStreamingMessage(currentChatId, '', selectedModel) returns;
\* the controller is created and getChatCompletionStream called
SaveAsstReturn(p, ok) ==
  /\ procs[p].pc = "saveAsst"
  /\ ok \/ budget.faults > 0
  /\ LET pr == procs[p]
         messageId == IF ok THEN nextId ELSE 0
         w1 == IF ok THEN InsertRow(World, pr.chatId, <<>>, pr.model)
               ELSE [World EXCEPT !.budget.faults = @ - 1]
     IN Commit([w1 EXCEPT !.streamingMessageId = messageId, !.abortController = p,
                          !.procs[p].messageId = messageId, !.procs[p].pc = "apiKey"])

\* a retry that blanks the assistant message
ShowRegeneratingBlank(msgs, index) ==
  IF index + 1 < Len(msgs) /\ msgs[index + 2].role = "assistant"
    THEN [msgs EXCEPT ![index + 2].content = <<>>]
    ELSE msgs

\* setMessages of handleRetryMessage: the assistant message shows the
\* regeneration notice
ShowRegenerating(msgs, index) ==
  IF index + 1 < Len(msgs) /\ msgs[index + 2].role = "assistant"
    THEN [msgs EXCEPT ![index + 2].content = <<RegeneratingPlaceholder>>]
    ELSE msgs

\* a retry that sends the whole transcript and keeps no identifier
RetryAcceptedWhole(p, index) ==
  [World EXCEPT !.isLoading = TRUE, !.budget.ops = @ - 1, !.abortController = p,
                !.procs[p] = [NoProc EXCEPT !.kind = "retry", !.pc = "apiKey",
                                            !.index = index, !.model = selectedModel,
                                            !.chatId = activeChatId,
                                            !.history = messages]]

\* handleRetryMessage up to the call of getChatCompletionStream
RetryAccepted(p, index) ==
  LET messageId == messages[index + 2].messageid
      pr == [NoProc EXCEPT !.kind = "retry", !.pc = "apiKey", !.index = index,
                           !.messageId = messageId, !.model = selectedModel,
                           !.chatId = activeChatId,
                           !.history = SubSeq(messages, 1, index + 1)]
  IN [World EXCEPT !.isLoading = TRUE, !.streamingMessageId = messageId,
                   !.budget.ops = @ - 1,
                   !.abortController = p, !.procs[p] = pr,
                   !.messages = ShowRegenerating(@, index)]

\* the retry button of message index is offered when the message is a user
\* message that carries a messageid
Retry(index) ==
  /\ Unused # {} /\ budget.ops > 0
  /\ index + 1 \in 1..Len(messages)
  /\ messages[index + 1].role = "user" /\ messages[index + 1].messageid # 0
  /\ IF isLoading \/ index < 0 \/ index >= Len(messages) - 1
        \/ messages[index + 1].role # "user" \/ activeChatId = 0
       THEN UNCHANGED vars
       ELSE Commit(RetryAccepted(NewProc, index))

\* getChatCompletionStream: await getApiKey() returns, fetch is called
ApiKeyReturn(p, hasKey) ==
  /\ procs[p].pc = "apiKey"
  /\ hasKey \/ budget.faults > 0
  /\ Commit(IF ~hasKey THEN Return(OnError([World EXCEPT !.budget.faults = @ - 1], p, ApiError), p)
            ELSE IF procs[p].aborted THEN Return(OnError(World, p, AbortError), p)
            ELSE [World EXCEPT !.procs[p].pc = "fetch"])

\* a fetch whose response status is not looked at
FetchReturnUnchecked(p, outcome) ==
  /\ procs[p].pc = "fetch"
  /\ outcome = "ok" \/ budget.faults > 0
  /\ LET w == [World EXCEPT !.budget.faults = @ - 1]
     IN Commit(CASE outcome = "ok" -> [World EXCEPT !.procs[p].pc = "read", !.procs[p].listening = TRUE]
                 [] outcome = "status" -> [w EXCEPT !.procs[p].pc = "read", !.procs[p].listening = TRUE]
                 [] OTHER -> Return(OnError(w, p, NetworkError), p))

\* await fetch(...) returns: a reader on the body, or an error
FetchReturn(p, outcome) ==
  /\ procs[p].pc = "fetch"
  /\ outcome = "ok" \/ budget.faults > 0
  /\ LET w == [World EXCEPT !.budget.faults = @ - 1]
     IN Commit(CASE outcome = "ok" -> [World EXCEPT !.procs[p].pc = "read", !.procs[p].listening = TRUE]
                 [] outcome = "status" -> Return(OnError(w, p, ApiError), p)
                 [] OTHER -> Return(OnError(w, p, NetworkError), p))

\* await reader.read() returns a chunk
Read(p, chunk) ==
  /\ procs[p].pc = "read"
  /\ budget.reads > 0
  /\ Commit(ProcessLines([World EXCEPT !.procs[p].buffer = @ \o chunk,
                                       !.procs[p].received = @ \o chunk,
                                       !.budget.reads = @ - 1], p))

\* await reader.read() returns done
ReadEnd(p) ==
  /\ procs[p].pc = "read"
  /\ Commit(Return(OnDone(World, p), p))

\* await reader.read() rejects
ReadFail(p) ==
  /\ procs[p].pc = "read"
  /\ budget.faults > 0
  /\ Commit(Return(OnError([World EXCEPT !.budget.faults = @ - 1], p, NetworkError), p))

\* a stop button whose signal reaches the listener but not the fetch or the
\* reader: the loop goes on reading
AbortListenerOnly ==
  /\ isLoading /\ abortController # 0
  /\ ~procs[abortController].aborted
  /\ LET p == abortController
         w0 == [World EXCEPT !.procs[p].aborted = TRUE, !.procs[p].listening = FALSE]
     IN Commit(IF procs[p].listening THEN OnError(w0, p, RequestAborted) ELSE w0)

\* the stop button: abortController.abort().  A fetch in progress rejects with
\* an AbortError; once the body is being read the listener reports 'Request
\* aborted' and the pending read rejects with an AbortError; the listener stays
\* registered after the function has returned.
Abort ==
  /\ isLoading /\ abortController # 0
  /\ ~procs[abortController].aborted
  /\ LET p == abortController
         pr == procs[p]
         w0 == [World EXCEPT !.procs[p].aborted = TRUE, !.procs[p].listening = FALSE]
         w1 == IF pr.listening THEN OnError(w0, p, RequestAborted) ELSE w0
     IN Commit(IF pr.pc \in {"fetch", "read"} THEN Return(OnError(w1, p, AbortError), p)
               ELSE w1)

\* an updateStreamingMessage call completes; the final write of a submit then
\* runs its .then
WriteComplete(wr, ok) ==
  /\ BagIn(wr, writes)
  /\ ok \/ budget.faults > 0
  /\ LET w1 == [World EXCEPT !.writes = @ (-) SetToBag({wr}),
                             !.db = IF ok THEN UpdateRow(@, wr.messageid, wr.content) ELSE @,
                             !.budget.faults = IF ok THEN @ ELSE @ - 1]
     IN Commit(IF wr.kind = "final" THEN ResetSubmit(w1) ELSE w1)

\* getChatMessages of a load reads the table
LoadRead(l) ==
  /\ l \in loads /\ l.phase = "issued"
  /\ loads' = (loads \ {l}) \cup {[l EXCEPT !.phase = "read", !.rows = ChatRows(db, l.chatId)]}
  /\ UNCHANGED << messages, isLoading, isSubmitting, activeChatId, abortController,
                  streamingMessageId, selectedModel, procs, writes, edits, db,
                  nextId, budget >>

\* loadChatMessages: setMessages(enhancedMessages), and the model of the most
\* recent assistant message becomes the selected model
LoadApply(l) ==
  /\ l \in loads /\ l.phase = "read"
  /\ LET assistantMessages == SelectSeq(l.rows, LAMBDA r : r.source # "user")
     IN Commit([World EXCEPT !.loads = @ \ {l},
                             !.messages = MapRows(l.rows),
                             !.selectedModel =
                                IF Len(assistantMessages) > 0
                                  THEN assistantMessages[Len(assistantMessages)].source
                                  ELSE @])

ChatIds ==
  ({1} \cup {db[i].chatid : i \in 1..Len(db)} \cup {procs[p].chatId : p \in DOMAIN procs}) \ {0}

\* handleSelectChat
SelectChat(chatId) ==
  /\ budget.userOps > 0
  /\ chatId \in ChatIds
  /\ Commit([World EXCEPT !.activeChatId = chatId, !.budget.userOps = @ - 1])

\* handleNewChat
NewChat ==
  /\ budget.userOps > 0
  /\ Commit([World EXCEPT !.messages = <<>>, !.activeChatId = 0, !.budget.userOps = @ - 1])

\* handleDeleteMessage(messageId), success being what deleteMessage returns
handleDeleteMessage(w, messageId, success) ==
  IF messageId = 0
    THEN w
    ELSE IF success
           THEN [w EXCEPT !.db = DeleteRow(@, messageId),
                          !.messages = SelectSeq(@, LAMBDA m : m.messageid # messageId)]
           ELSE w

\* handleDeleteMessage called with the messageid of the message at position i
\* (0 when the message carries none)
DeleteMessage(i, ok) ==
  /\ budget.userOps > 0
  /\ i \in 1..Len(messages)
  /\ ok \/ budget.faults > 0
  /\ Commit(handleDeleteMessage([World EXCEPT !.budget.userOps = @ - 1,
                                              !.budget.faults = IF ok THEN @ ELSE @ - 1],
                                messages[i].messageid, ok))

\* what the user may type into the edit box
EditTexts == { <<"Ed">>, <<" ", "Ed", " ">>, <<" ">> }

\* the transcript the Save handler computes from the messages of its render
ReplaceContent(msgs, messageId, content) ==
  [k \in 1..Len(msgs) |-> IF msgs[k].messageid = messageId
                            THEN [msgs[k] EXCEPT !.content = content] ELSE msgs[k]]

\* Save of the edit box on the user message at position i: the handler of this
\* render (with this render's messages) awaits updateStreamingMessage
EditSave(i, editingContent) ==
  /\ budget.userOps > 0
  /\ i \in 1..Len(messages)
  /\ messages[i].role = "user" /\ messages[i].messageid # 0
  /\ IF Trim(editingContent) = <<>>
       THEN Commit([World EXCEPT !.budget.userOps = @ - 1])
       ELSE Commit([World EXCEPT !.budget.userOps = @ - 1,
                                 !.edits = @ \cup {[messageid |-> messages[i].messageid,
                                                    content |-> Trim(editingContent),
                                                    messages |-> messages]}])

\* await updateStreamingMessage(...) of a Save returns (its result is not
\* used); setMessages(messages.map(...)) with the messages of the Save's render
EditReturn(e, ok) ==
  /\ e \in edits
  /\ ok \/ budget.faults > 0
  /\ Commit([World EXCEPT !.edits = @ \ {e},
                          !.db = IF ok THEN UpdateRow(@, e.messageid, e.content) ELSE @,
                          !.budget.faults = IF ok THEN @ ELSE @ - 1,
                          !.messages = ReplaceContent(e.messages, e.messageid, e.content)])

Next ==
  \/ \E t \in Texts : Submit(t)
  \/ \E p \in Procs, ok \in BOOLEAN : CreateChatReturn(p, ok)
  \/ \E p \in Procs, ok \in BOOLEAN : SaveUserReturn(p, ok)
  \/ \E p \in Procs, ok \in BOOLEAN : SaveAsstReturn(p, ok)
  \/ \E index \in 0..3 : Retry(index)
  \/ \E p \in Procs, hasKey \in BOOLEAN : ApiKeyReturn(p, hasKey)
  \/ \E p \in Procs, outcome \in {"ok", "status", "network"} : FetchReturn(p, outcome)
  \/ \E p \in Procs, chunk \in LineChunks : Read(p, chunk)
  \/ \E p \in Procs : ReadEnd(p)
  \/ \E p \in Procs : ReadFail(p)
  \/ Abort
  \/ \E wr \in BagToSet(writes), ok \in BOOLEAN : WriteComplete(wr, ok)
  \/ \E l \in loads : LoadRead(l)
  \/ \E l \in loads : LoadApply(l)
  \/ \E chatId \in 1..8 : SelectChat(chatId)
  \/ NewChat
  \/ \E i \in 1..4, ok \in BOOLEAN : DeleteMessage(i, ok)

Spec == Init /\ [][Next]_vars

\* ------------------------------------------------- overlapping invocations
\* Two invocations, no failing call, no other click.
RaceChunks == { Line(Serialize("eP")), Line(DoneToken) }

InitRace ==
  /\ messages = <<>>
  /\ isLoading = FALSE
  /\ isSubmitting = FALSE
  /\ activeChatId = 0
  /\ abortController = 0
  /\ streamingMessageId = 0
  /\ selectedModel = DefaultModel
  /\ procs = [p \in Procs |-> NoProc]
  /\ writes = EmptyBag
  /\ loads = {}
  /\ edits = {}
  /\ db = InitialRows
  /\ nextId = 4
  /\ budget = [ops |-> MaxOps, reads |-> RaceReads, faults |-> 0, userOps |-> 0]

NextRace ==
  \/ \E t \in Texts : Submit(t)
  \/ \E p \in Procs : CreateChatReturn(p, TRUE)
  \/ \E p \in Procs : SaveUserReturn(p, TRUE)
  \/ \E p \in Procs : SaveAsstReturn(p, TRUE)
  \/ \E index \in 0..3 : Retry(index)
  \/ \E p \in Procs : ApiKeyReturn(p, TRUE)
  \/ \E p \in Procs : FetchReturn(p, "ok")
  \/ \E p \in Procs, chunk \in RaceChunks : Read(p, chunk)
  \/ \E p \in Procs : ReadEnd(p)
  \/ Abort
  \/ \E wr \in BagToSet(writes) : WriteComplete(wr, TRUE)
  \/ \E l \in loads : LoadRead(l)
  \/ \E l \in loads : LoadApply(l)

SpecRace == InitRace /\ [][NextRace]_vars

\* ------------------------------------------------ one response body in full
\* The lines a body is made of: two events, the sentinel, a payload that is
\* not JSON, a comment, and an event on a line ending in CR LF.
BodyLines ==
  { Line(Serialize("eP")), Line(Serialize("eL")), Line(DoneToken), Line(<<"{", "eP">>),
    <<":", "\n">>, DataPrefix \o Serialize("eP") \o <<"\r", "\n">> }

RECURSIVE Bodies(_)
Bodies(n) ==
  IF n = 0 THEN { <<>> }
  ELSE LET shorter == Bodies(n - 1)
       IN shorter \cup { b \o l : b \in shorter, l \in BodyLines }

\* A submit on a new chat has just called getChatCompletionStream; the body
\* the server will send is fixed, the chunks it arrives in are not.
InitBody ==
  /\ messages = << UserMessage(<<"Hi">>),
                   [role |-> "assistant", content |-> <<>>, model |-> DefaultModel,
                    messageid |-> 0, citations |-> <<>>] >>
  /\ isLoading = TRUE
  /\ isSubmitting = TRUE
  /\ activeChatId = 4
  /\ abortController = 1
  /\ streamingMessageId = 6
  /\ selectedModel = DefaultModel
  /\ \E b \in Bodies(MaxBodyLines) :
        procs = [p \in Procs |->
                  IF p = 1
                    THEN [NoProc EXCEPT !.kind = "submit", !.pc = "apiKey", !.chatId = 4,
                                        !.display = <<"Hi">>, !.model = DefaultModel,
                                        !.history = << UserMessage(<<"Hi">>) >>,
                                        !.messageId = 6, !.body = b]
                    ELSE NoProc]
  /\ writes = EmptyBag
  /\ loads = {}
  /\ edits = {}
  /\ db = InitialRows \o
            << [messageid |-> 5, chatid |-> 4, message |-> <<"Hi">>, source |-> "user"],
               [messageid |-> 6, chatid |-> 4, message |-> <<>>, source |-> DefaultModel] >>
  /\ nextId = 7
  /\ budget = [ops |-> 0, reads |-> 0, faults |-> MaxFaults, userOps |-> 0]

\* a read loop that keeps no remainder: each chunk is scanned on its own
ReadBodyUnbuffered(p, k) ==
  /\ procs[p].pc = "read"
  /\ k \in 1..Len(procs[p].body)
  /\ Commit(ProcessLines([World EXCEPT
        !.procs[p].buffer = SubSeq(procs[p].body, 1, k),
        !.procs[p].received = @ \o SubSeq(procs[p].body, 1, k),
        !.procs[p].body = SubSeq(@, k + 1, Len(@))], p))

\* await reader.read() returns the next k symbols of the body
ReadBody(p, k) ==
  /\ procs[p].pc = "read"
  /\ k \in 1..Len(procs[p].body)
  /\ Commit(ProcessLines([World EXCEPT
        !.procs[p].buffer = @ \o SubSeq(procs[p].body, 1, k),
        !.procs[p].received = @ \o SubSeq(procs[p].body, 1, k),
        !.procs[p].body = SubSeq(@, k + 1, Len(@))], p))

\* await reader.read() returns done: the body has been delivered
BodyEnd(p) ==
  /\ procs[p].body = <<>>
  /\ ReadEnd(p)

NextBody ==
  \/ \E p \in Procs, hasKey \in BOOLEAN : ApiKeyReturn(p, hasKey)
  \/ \E p \in Procs, outcome \in {"ok", "status", "network"} : FetchReturn(p, outcome)
  \/ \E p \in Procs, k \in 1..(6 * MaxBodyLines + 3) : ReadBody(p, k)
  \/ \E p \in Procs : BodyEnd(p)
  \/ \E p \in Procs : ReadFail(p)
  \/ Abort
  \/ \E wr \in BagToSet(writes), ok \in BOOLEAN : WriteComplete(wr, ok)
  \/ \E l \in loads : LoadRead(l)
  \/ \E l \in loads : LoadApply(l)

SpecBody == InitBody /\ [][NextBody]_vars

\* ---------------------------------------------- a stream that has ended once
\* A submit on a new chat whose body so far was one event and the sentinel:
\* onDone has run and its final write is pending, and the response body is
\* still being read.  Two more submits may follow.
InitLate ==
  /\ messages = << UserMessage(<<"Hi">>),
                   [role |-> "assistant", content |-> <<"Par">>, model |-> DefaultModel,
                    messageid |-> 6, citations |-> <<>>] >>
  /\ isLoading = TRUE
  /\ isSubmitting = TRUE
  /\ activeChatId = 4
  /\ abortController = 1
  /\ streamingMessageId = 6
  /\ selectedModel = DefaultModel
  /\ procs = [p \in Procs \cup {MaxOps + 1} |->
               IF p = 1
                 THEN [NoProc EXCEPT !.kind = "submit", !.pc = "read", !.chatId = 4,
                                     !.display = <<"Hi">>, !.model = DefaultModel,
                                     !.history = << UserMessage(<<"Hi">>) >>,
                                     !.messageId = 6, !.listening = TRUE,
                                     !.received = Line(Serialize("eP")) \o Line(DoneToken),
                                     !.acc = <<"Par">>, !.calls = <<"eP", "done">>]
                 ELSE NoProc]
  /\ writes = SetToBag({[messageid |-> 6, content |-> <<"Par">>, proc |-> 1, kind |-> "final"]})
  /\ loads = {}
  /\ edits = {}
  /\ db = InitialRows \o
            << [messageid |-> 5, chatid |-> 4, message |-> <<"Hi">>, source |-> "user"],
               [messageid |-> 6, chatid |-> 4, message |-> <<>>, source |-> DefaultModel] >>
  /\ nextId = 7
  /\ budget = [ops |-> MaxOps, reads |-> 0, faults |-> 0, userOps |-> 0]

LateProcs == DOMAIN procs

NextLate ==
  \/ \E t \in Texts : Submit(t)
  \/ \E p \in LateProcs : SaveUserReturn(p, TRUE)
  \/ \E p \in LateProcs : SaveAsstReturn(p, TRUE)
  \/ \E p \in LateProcs : ApiKeyReturn(p, TRUE)
  \/ \E p \in LateProcs : FetchReturn(p, "ok")
  \/ \E p \in LateProcs : ReadEnd(p)
  \/ \E wr \in BagToSet(writes) : WriteComplete(wr, TRUE)
  \/ \E l \in loads : LoadRead(l)
  \/ \E l \in loads : LoadApply(l)

SpecLate == InitLate /\ [][NextLate]_vars

\* ------------------------------------------ two conversations in the store
\* The store holds a second conversation of one turn; the first one is
\* selected and loaded.
OtherRows ==
  << [messageid |-> 8, chatid |-> 7, message |-> <<"Hi">>, source |-> "user"],
     [messageid |-> 9, chatid |-> 7, message |-> <<"Old">>, source |-> "m1"] >>

InitSwitch ==
  /\ messages = MapRows(InitialRows)
  /\ isLoading = FALSE
  /\ isSubmitting = FALSE
  /\ activeChatId = 1
  /\ abortController = 0
  /\ streamingMessageId = 0
  /\ selectedModel = "m1"
  /\ procs = [p \in Procs |-> NoProc]
  /\ writes = EmptyBag
  /\ loads = {}
  /\ edits = {}
  /\ db = InitialRows \o OtherRows
  /\ nextId = 10
  /\ budget = [ops |-> TurnOps, reads |-> MaxReads, faults |-> MaxFaults,
               userOps |-> MaxUserOps]

SpecSwitch == InitSwitch /\ [][Next]_vars

\* ------------------------------------------- a stream read past its sentinel
\* The first submit of a new conversation received the sentinel as its first
\* line: onDone has reset the component and the conversation was reloaded,
\* while the stream function is still reading the body.  A second turn follows.
InitStale ==
  /\ messages = << [role |-> "user", content |-> <<"Hi">>, model |-> "",
                    messageid |-> 5, citations |-> <<>>],
                   [role |-> "assistant", content |-> <<>>, model |-> DefaultModel,
                    messageid |-> 6, citations |-> <<>>] >>
  /\ isLoading = FALSE
  /\ isSubmitting = FALSE
  /\ activeChatId = 4
  /\ abortController = 0
  /\ streamingMessageId = 0
  /\ selectedModel = DefaultModel
  /\ procs = [p \in Procs |->
               IF p = 1
                 THEN [NoProc EXCEPT !.kind = "submit", !.pc = "read", !.chatId = 4,
                                     !.display = <<"Hi">>, !.model = DefaultModel,
                                     !.history = << UserMessage(<<"Hi">>) >>,
                                     !.messageId = 6, !.listening = TRUE,
                                     !.received = Line(DoneToken),
                                     !.calls = <<"done">>]
                 ELSE NoProc]
  /\ writes = EmptyBag
  /\ loads = {}
  /\ edits = {}
  /\ db = InitialRows \o
            << [messageid |-> 5, chatid |-> 4, message |-> <<"Hi">>, source |-> "user"],
               [messageid |-> 6, chatid |-> 4, message |-> <<>>, source |-> DefaultModel] >>
  /\ nextId = 7
  /\ budget = [ops |-> TurnOps, reads |-> RaceReads, faults |-> 0, userOps |-> MaxUserOps]

\* no call fails, and the user's only click is a delete
NextStale ==
  \/ \E t \in Texts : Submit(t)
  \/ \E p \in Procs : SaveUserReturn(p, TRUE)
  \/ \E p \in Procs : SaveAsstReturn(p, TRUE)
  \/ \E p \in Procs : ApiKeyReturn(p, TRUE)
  \/ \E p \in Procs : FetchReturn(p, "ok")
  \/ \E p \in Procs, chunk \in LineChunks : Read(p, chunk)
  \/ \E p \in Procs : ReadEnd(p)
  \/ \E wr \in BagToSet(writes) : WriteComplete(wr, TRUE)
  \/ \E l \in loads : LoadRead(l)
  \/ \E l \in loads : LoadApply(l)
  \/ \E i \in 1..4 : DeleteMessage(i, TRUE)

SpecStale == InitStale /\ [][NextStale]_vars

\* -------------------------------------------------- an edit during a turn
\* A conversation with stored messages is open; the user saves one edit while
\* a turn runs.  No call fails but, possibly, the write of the edit.
NextEdit ==
  \/ \E t \in Texts : Submit(t)
  \/ \E p \in Procs : SaveUserReturn(p, TRUE)
  \/ \E p \in Procs : SaveAsstReturn(p, TRUE)
  \/ \E p \in Procs : ApiKeyReturn(p, TRUE)
  \/ \E p \in Procs : FetchReturn(p, "ok")
  \/ \E p \in Procs, chunk \in LineChunks : Read(p, chunk)
  \/ \E p \in Procs : ReadEnd(p)
  \/ \E wr \in BagToSet(writes) : WriteComplete(wr, TRUE)
  \/ \E l \in loads : LoadRead(l)
  \/ \E l \in loads : LoadApply(l)
  \/ \E i \in 1..4, text \in EditTexts : EditSave(i, text)
  \/ \E e \in edits, ok \in BOOLEAN : EditReturn(e, ok)

SpecEdit == InitSwitch /\ [][NextEdit]_vars

\* ------------------------------------------- a conversation of two turns
\* The earlier conversation with a second turn, loaded and idle.
TwoTurnRows ==
  InitialRows \o
    << [messageid |-> 4, chatid |-> 1, message |-> <<"Hi">>, source |-> "user"],
       [messageid |-> 5, chatid |-> 1, message |-> <<"Old">>, source |-> "m1"] >>

InitTurns ==
  /\ messages = MapRows(TwoTurnRows)
  /\ isLoading = FALSE
  /\ isSubmitting = FALSE
  /\ activeChatId = 1
  /\ abortController = 0
  /\ streamingMessageId = 0
  /\ selectedModel = "m1"
  /\ procs = [p \in Procs |-> NoProc]
  /\ writes = EmptyBag
  /\ loads = {}
  /\ edits = {}
  /\ db = TwoTurnRows
  /\ nextId = 6
  /\ budget = [ops |-> TurnOps, reads |-> MaxReads, faults |-> 0, userOps |-> MaxUserOps]

\* no call fails; the user deletes messages and retries turns
NextTurns ==
  \/ \E i \in 1..4 : DeleteMessage(i, TRUE)
  \/ \E index \in 0..3 : Retry(index)
  \/ \E p \in Procs : ApiKeyReturn(p, TRUE)
  \/ \E p \in Procs : FetchReturn(p, "ok")
  \/ \E p \in Procs, chunk \in LineChunks : Read(p, chunk)
  \/ \E p \in Procs : ReadEnd(p)
  \/ Abort
  \/ \E wr \in BagToSet(writes) : WriteComplete(wr, TRUE)

SpecTurns == InitTurns /\ [][NextTurns]_vars

\* ------------------------------------------------------------ vocabulary
AllProcs == DOMAIN procs

IsTerminal(call) == call \in {"done", "error"}

\* a terminal callback has been invoked
Signalled(pr) == \E i \in 1..Len(pr.calls) : IsTerminal(pr.calls[i])

\* dispatched and not yet at a terminal callback
InFlight(pr) == pr.pc \in {"apiKey", "fetch", "read"} /\ ~Signalled(pr)

\* the message the callbacks of an invocation address: the last one for a
\* submit, the one at index + 1 for a retry (1-based position)
Addressed(pr, msgs) == IF pr.kind = "submit" THEN Len(msgs) ELSE pr.index + 2

HasAddressed(pr, msgs) ==
  /\ Addressed(pr, msgs) \in 1..Len(msgs)
  /\ msgs[Addressed(pr, msgs)].role = "assistant"

CountOf(calls, c) == Cardinality({i \in 1..Len(calls) : calls[i] = c})

\* the updateStreamingMessage calls a step issues
Issued(before, after) ==
  {wr \in BagToSet(after) : CopiesIn(wr, after) > CopiesIn(wr, before)}

\* ------------------------------------------------------------------ C1
\* C1 as claimed: once onDone has been invoked for the sentinel, onChunk is
\* invoked for no later data line, and a stream that has returned after a
\* sentinel has signalled done exactly once.
C1_NoEventAfterSentinel ==
  \A p \in AllProcs :
    LET calls == procs[p].calls
    IN /\ \A i, j \in 1..Len(calls) :
            (i < j /\ calls[i] = "done") => calls[j] \notin EventIds
       /\ (procs[p].pc = "end" /\ CountOf(calls, "error") = 0) => CountOf(calls, "done") = 1

\* ------------------------------------------------------------------ C2
\* C2 as claimed: at most one streaming request is in flight.
C2_SingleFlight == Cardinality({p \in AllProcs : InFlight(procs[p])}) <= 1

\* ------------------------------------------------------------------ C3
\* C3 as claimed: a submit invoked while a stream of the active conversation is
\* in flight is rejected: the transcript and the store stay as they are.
C3_BusyRejected ==
  [][ ((\E t \in Texts : Submit(t))
       /\ \E p \in AllProcs : InFlight(procs[p]) /\ procs[p].chatId = activeChatId)
      => (messages' = messages /\ db' = db /\ procs' = procs) ]_vars

\* ------------------------------------------------------------------ C4
ErrorTexts == {ErrorSuffix, ErrorNotice}

Mentions(content, texts) == \E i \in 1..Len(content) : content[i] \in texts

\* the stop button acts on the stream p, which is in flight
AbortOf(p) == Abort /\ abortController = p /\ InFlight(procs[p])

\* C4: when the stop button acts on a stream in flight that has accumulated
\* content, the step leaves the message the stream addresses with the
\* accumulated content followed by the stopped suffix, the stream function
\* returned and isLoading false; every write the step issues carries that same
\* content, and no error text is written, to the transcript or to a write.
C4_AbortSealsPartial ==
  [][ \A p \in AllProcs :
        (AbortOf(p) /\ procs[p].acc # <<>>) =>
          LET sealed == procs[p].acc \o <<StoppedSuffix>>
          IN /\ isLoading' = FALSE
             /\ procs'[p].pc = "end"
             /\ HasAddressed(procs[p], messages)
                  => messages'[Addressed(procs[p], messages)].content = sealed
             /\ Len(messages') = Len(messages)
             /\ \A wr \in Issued(writes, writes') : wr.content = sealed
             /\ \A i \in 1..Len(messages') :
                  Mentions(messages'[i].content, ErrorTexts)
                    => Mentions(messages[i].content, ErrorTexts) ]_vars

\* a stopped stream that had accumulated "Par" shows "Par" and the stopped suffix
C4_Witness ==
  \E p \in AllProcs :
    /\ procs[p].aborted /\ procs[p].pc = "end" /\ procs[p].acc = <<"Par">>
    /\ ~isLoading
    /\ HasAddressed(procs[p], messages)
    /\ messages[Addressed(procs[p], messages)].content = <<"Par", StoppedSuffix>>

\* ------------------------------------------------------------------ C5
\* the fetch of a stream stopped before it was called rejects at once
DeferredAbortOf(p) == ApiKeyReturn(p, TRUE) /\ procs[p].aborted /\ InFlight(procs[p])

\* C5: when the stop button acts on a stream in flight that has accumulated
\* nothing (before the fetch, during it, or while the body is read), the
\* message the stream addresses ends with exactly the stopped notice in place
\* of whatever it showed, for a submit and for a retry, and isLoading is false.
C5_AbortSealsEmpty ==
  [][ \A p \in AllProcs :
        ( /\ procs[p].acc = <<>>
          /\ \/ AbortOf(p) /\ procs[p].pc \in {"fetch", "read"}
             \/ DeferredAbortOf(p) ) =>
          /\ isLoading' = FALSE
          /\ procs'[p].pc = "end"
          /\ HasAddressed(procs[p], messages)
               => messages'[Addressed(procs[p], messages)].content = <<StoppedNotice>>
          /\ \A wr \in Issued(writes, writes') : wr.content = <<StoppedNotice>> ]_vars

\* a stopped submit and a stopped retry, neither of which had accumulated
\* anything: the message the retry addresses shows the stopped notice where
\* the regenerating placeholder was
C5_Witness ==
  \E p, q \in AllProcs :
    /\ procs[p].kind = "submit" /\ procs[p].aborted /\ procs[p].pc = "end"
    /\ procs[p].acc = <<>> /\ procs[p].calls = <<"error">>
    /\ procs[q].kind = "retry" /\ procs[q].aborted /\ procs[q].pc = "end"
    /\ procs[q].acc = <<>>
    /\ HasAddressed(procs[q], messages)
    /\ messages[Addressed(procs[q], messages)].content = <<StoppedNotice>>
    /\ ~isLoading

\* ------------------------------------------------------------------ C6
\* the retry of the message at index is accepted
RetryTaken(index) == Retry(index) /\ procs' # procs

\* C6: an accepted retry of index sends the messages 0..index as history and
\* takes the identifier of the message at index + 1 as the one to persist
\* under; neither the acceptance nor any later step of the retry's stream
\* allocates an identifier, adds a record or changes the length of the
\* transcript; every write of the retry is keyed by that identifier; and each
\* event with content leaves the message at index + 1, when it is an assistant
\* message, with the content accumulated so far.
C6_RetryInPlace ==
  [][ /\ \A index \in 0..3 :
           RetryTaken(index) =>
             LET pr == procs'[NewProc]
             IN /\ pr.kind = "retry" /\ pr.index = index
                /\ pr.history = SubSeq(messages, 1, index + 1)
                /\ pr.messageId = messages[index + 2].messageid
                /\ nextId' = nextId /\ db' = db
                /\ Len(messages') = Len(messages)
      /\ \A p \in AllProcs :
           (procs[p].kind = "retry" /\ procs'[p] # procs[p]) =>
             /\ nextId' = nextId /\ Len(db') = Len(db)
             /\ Len(messages') = Len(messages)
             /\ procs'[p].messageId = procs[p].messageId
             /\ procs'[p].history = procs[p].history
             /\ \A wr \in Issued(writes, writes') :
                  wr.proc = p /\ wr.messageid = procs[p].messageId
             /\ (procs'[p].acc # procs[p].acc /\ HasAddressed(procs[p], messages))
                  => messages'[procs[p].index + 2].content = procs'[p].acc ]_vars

\* a retry of the first turn of the earlier conversation has streamed "Par" and
\* finished: the record of the old answer holds "Par" and no record was added
C6_Witness ==
  \E p \in AllProcs :
    /\ procs[p].kind = "retry" /\ procs[p].index = 0 /\ procs[p].pc = "end"
    /\ procs[p].messageId = 3 /\ procs[p].history = << messages[1] >>
    /\ procs[p].calls = <<"eP", "done">>
    /\ Len(messages) = 2 /\ messages[2].content = <<"Par">> /\ messages[2].messageid = 3
    /\ Len(db) = Len(InitialRows)
    /\ \E i \in 1..Len(db) : db[i].messageid = 3 /\ db[i].message = <<"Par">>

\* ------------------------------------------------------------------ C7
\* the contents the invocation may leave when it is over
AllowedContents(pr) ==
  { pr.acc, FinalContent(pr.acc, pr.cites, pr.isWebSearch),
    SealedContent(pr.acc, TRUE), SealedContent(pr.acc, FALSE) }

\* a step of invocation p (a callback of its stream, or the completion of its
\* final write) after which isLoading is false
ReturnsToIdle(p) ==
  /\ isLoading /\ ~isLoading'
  /\ procs[p].kind # "none"
  /\ \/ procs'[p] # procs[p]
     \/ \E wr \in BagToSet(writes) :
          wr.proc = p /\ wr.kind = "final" /\ CopiesIn(wr, writes') < CopiesIn(wr, writes)

\* C7 as claimed, for the content: when an invocation returns the component to
\* isLoading = false, the assistant message it addresses shows the answer
\* (with or without the citations block), the answer so far with the stopped
\* or the error suffix, or the bare stopped or error notice.
C7_IdleWithAnswerOrNotice ==
  [][ \A p \in AllProcs :
        (ReturnsToIdle(p) /\ HasAddressed(procs'[p], messages'))
          => messages'[Addressed(procs'[p], messages')].content \in AllowedContents(procs'[p]) ]_vars

\* ------------------------------------------------------------------ C8
\* the step in which the stream of p delivers exactly one event to onChunk
EventOf(p) ==
  \E id \in EventIds : procs'[p].calls = Append(procs[p].calls, id)

\* C8 as claimed: from one processed event of a stream to the next, the
\* content of the message the stream addresses does not get shorter.
C8_NoEventShrinks ==
  [][ \A p \in AllProcs :
        ( /\ EventOf(p)
          /\ \E i \in 1..Len(procs[p].calls) : procs[p].calls[i] \in EventIds
          /\ HasAddressed(procs[p], messages) /\ Len(messages') = Len(messages) )
          => StrLen(messages'[Addressed(procs[p], messages)].content)
               >= StrLen(messages[Addressed(procs[p], messages)].content) ]_vars

\* C8, amended: each event extends the accumulated content by appending, and
\* leaves the addressed message either untouched (the event carried nothing
\* the callback processes) or showing the accumulated content; so an event
\* shortens the message only when what it showed was not the accumulated
\* content of this stream (the placeholder before the first event).
C8_AccumulatedContentGrows ==
  [][ \A p \in AllProcs :
        (EventOf(p) /\ HasAddressed(procs[p], messages) /\ Len(messages') = Len(messages))
          => LET old == messages[Addressed(procs[p], messages)].content
                 new == messages'[Addressed(procs[p], messages)].content
             IN /\ StartsWith(procs'[p].acc, procs[p].acc)
                /\ new = procs'[p].acc \/ (new = old /\ procs'[p].acc = procs[p].acc)
                /\ old = procs[p].acc => StrLen(new) >= StrLen(old) ]_vars

\* two events with content were processed and the message shows both fragments
C8_Witness ==
  \E p \in AllProcs :
    /\ procs[p].calls = <<"eL", "eP">>
    /\ HasAddressed(procs[p], messages)
    /\ messages[Addressed(procs[p], messages)].content = <<"L97", "Par">>

\* ------------------------------------------------------------------ C9
\* C9 as claimed: a stream that has signalled done and signals done again
\* issues no write in that step.
C9_FinalizedOnce ==
  [][ \A p \in AllProcs :
        ( /\ CountOf(procs[p].calls, "done") >= 1
          /\ CountOf(procs'[p].calls, "done") > CountOf(procs[p].calls, "done") )
          => Issued(writes, writes') = {} ]_vars

\* ----------------------------------------------------------------- C10
\* the citations an event carries, in the order onChunk visits them
CitationsOf(id) ==
  LET ev == Events[id]
  IN [i \in 1..Len(ev.annotations) |->
        [shape |-> "annotation", url |-> ev.annotations[i].url,
         title |-> ev.annotations[i].title, text |-> ev.annotations[i].content,
         number |-> 0]]
     \o [i \in 1..Len(ev.citations) |->
           [shape |-> "citation", url |-> ev.citations[i].url,
            title |-> ev.citations[i].title, text |-> ev.citations[i].text,
            number |-> ev.citations[i].number]]

RECURSIVE CitationsSeen(_)
CitationsSeen(calls) ==
  IF calls = <<>> THEN <<>>
  ELSE CitationsSeen(SubSeq(calls, 1, Len(calls) - 1))
         \o (IF calls[Len(calls)] \in EventIds THEN CitationsOf(calls[Len(calls)]) ELSE <<>>)

\* the positions whose url no earlier position carries
FirstSeen(seen) == {i \in 1..Len(seen) : \A j \in 1..(i - 1) : seen[j].url # seen[i].url}

\* C10: the citations a submit has collected are the citations of its events
\* without those whose url was seen before: as many entries as first
\* occurrences (n - k), in the order of first occurrence, each with the title
\* and text of its first occurrence and the number it got when inserted (its
\* position for an annotation, the number it came with for a delta citation).
C10_CitationsFirstSeen ==
  \A p \in AllProcs :
    procs[p].kind = "submit" =>
      LET seen == CitationsSeen(procs[p].calls)
          first == FirstSeen(seen)
          cites == procs[p].cites
      IN /\ Len(cites) = Cardinality(first)
         /\ \A i \in first :
              LET m == Cardinality({j \in first : j <= i})
              IN /\ cites[m].url = seen[i].url
                 /\ cites[m].title = seen[i].title
                 /\ cites[m].text = seen[i].text
                 /\ cites[m].number = IF seen[i].shape = "annotation" THEN m ELSE seen[i].number

\* four citations of which one repeats a url: three entries, the first title kept
C10_Witness ==
  \E p \in AllProcs :
    /\ procs[p].kind = "submit" /\ procs[p].calls = <<"eA", "eC">>
    /\ Len(procs[p].cites) = 3
    /\ procs[p].cites[1].url = "u1" /\ procs[p].cites[1].title = "t1"
    /\ procs[p].cites[3].url = "u3"

\* ----------------------------------------------------------------- C11
\* the complete lines of the bytes received, found by the positions of the
\* line feeds
LineCount(text) == Cardinality({i \in 1..Len(text) : text[i] = "\n"})

LineEnd(text, k) ==
  IF k = 0 THEN 0
  ELSE CHOOSE i \in 1..Len(text) :
         text[i] = "\n" /\ Cardinality({j \in 1..i : text[j] = "\n"}) = k

LineAt(text, k) == SubSeq(text, LineEnd(text, k - 1) + 1, LineEnd(text, k) - 1)

IsDataLine(line) == StartsWith(Trim(line), DataPrefix)

PayloadOf(line) == SubSeq(Trim(line), Len(DataPrefix) + 1, Len(Trim(line)))

IsSentinelLine(line) == IsDataLine(line) /\ PayloadOf(line) = DoneToken

\* a data line whose payload is the text of an event
IsEventLine(line) ==
  IsDataLine(line) /\ \E id \in EventIds : Trim(PayloadOf(line)) = Serialize(id)

\* a data line whose payload is neither the sentinel nor valid JSON
IsMalformedLine(line) == IsDataLine(line) /\ ~IsSentinelLine(line) /\ ~IsEventLine(line)

EventIdOf(line) == CHOOSE id \in EventIds : Trim(PayloadOf(line)) = Serialize(id)

\* the events of the valid data lines among the first n lines, in order
RECURSIVE ValidEvents(_, _)
ValidEvents(text, n) ==
  IF n = 0 THEN <<>>
  ELSE ValidEvents(text, n - 1)
         \o (IF IsEventLine(LineAt(text, n)) THEN << EventIdOf(LineAt(text, n)) >> ELSE <<>>)

EventsIn(calls) == SelectSeq(calls, LAMBDA c : c \in EventIds)

HasSentinel(text) == \E k \in 1..LineCount(text) : IsSentinelLine(LineAt(text, k))

\* C11: after each read of a body in which no sentinel has arrived, the events
\* delivered to onChunk are exactly the events of the valid data lines
\* received so far, in their order (a line whose payload is not JSON
\* contributes nothing and hides no line before or after it), and the read
\* has not invoked onError.
C11_MalformedDropped ==
  [][ \A p \in AllProcs :
        (procs'[p].received # procs[p].received /\ ~HasSentinel(procs'[p].received))
          => /\ EventsIn(procs'[p].calls)
                  = ValidEvents(procs'[p].received, LineCount(procs'[p].received))
             /\ CountOf(procs'[p].calls, "error") = CountOf(procs[p].calls, "error") ]_vars

\* a body with a malformed data line between two events: both were delivered
C11_Witness ==
  \E p \in AllProcs :
    /\ procs[p].received
         = Line(Serialize("eP")) \o Line(<<"{", "eP">>) \o Line(Serialize("eL"))
    /\ IsMalformedLine(LineAt(procs[p].received, 2))
    /\ procs[p].calls = <<"eP", "eL">>

\* ----------------------------------------------------------------- C12
\* the message is the one the stream of pr was started for: it carries the
\* identifier of the stream's record, or none yet
IsTargetOf(pr, m) == m.role = "assistant" /\ m.messageid \in {0, pr.messageId}

\* C12 as claimed: an event of a stream changes no message but the stream's
\* target, and leaves the length of the transcript as it is.
C12_OnlyTargetChanged ==
  [][ \A p \in AllProcs :
        EventOf(p) =>
          /\ Len(messages') = Len(messages)
          /\ \A i \in 1..Len(messages) :
               messages'[i] # messages[i] => IsTargetOf(procs[p], messages[i]) ]_vars

\* ----------------------------------------------------------------- C13
\* nothing is pending: no stream is loading, no write and no load is under way
Quiet == ~isLoading /\ writes = EmptyBag /\ loads = {}

\* the stream of pr returned after signalling done, and never an error
EndedDone(pr) ==
  pr.pc = "end" /\ CountOf(pr.calls, "done") >= 1 /\ CountOf(pr.calls, "error") = 0

\* no click other than the submit or retry was made
NoClicks == budget.userOps = MaxUserOps

\* a call failed
SomeFault == budget.faults < MaxFaults

\* C13 as claimed, for what the user sees: when a call has failed, a submit
\* whose stream ended in done with content shows, once everything is quiet, an
\* assistant message as last message holding the complete answer.
C13_AnswerShownDespiteFailedWrite ==
  \A p \in AllProcs :
    ( /\ procs[p].kind = "submit" /\ EndedDone(procs[p]) /\ procs[p].acc # <<>>
      /\ Quiet /\ NoClicks /\ SomeFault /\ activeChatId = procs[p].chatId )
      => /\ Len(messages) >= 1
         /\ messages[Len(messages)].role = "assistant"
         /\ messages[Len(messages)].content
              \in { procs[p].acc,
                    FinalContent(procs[p].acc, procs[p].cites, procs[p].isWebSearch) }

\* ----------------------------------------------------------------- C14
\* the content of the record with the identifier
Durable(rows, id) == (CHOOSE i \in 1..Len(rows) : rows[i].messageid = id)

\* the stream of pr was stopped before it signalled done, and has returned
Stopped(pr) == pr.aborted /\ pr.pc = "end" /\ CountOf(pr.calls, "done") = 0

NoFault == budget.faults = MaxFaults

\* the record of a stopped stream holds the sealed content
DurableSealed(p) ==
  /\ HasRow(db, procs[p].messageId)
  /\ db[Durable(db, procs[p].messageId)].message = SealedContent(procs[p].acc, TRUE)

\* the transcript shows the message of a stopped stream with the sealed content
ShownSealed(p) ==
  \E i \in 1..Len(messages) :
    /\ messages[i].messageid = procs[p].messageId
    /\ messages[i].content = SealedContent(procs[p].acc, TRUE)

\* C14 as claimed: once a stopped stream has returned and everything is quiet
\* (no call failed, no other click was made), the record of its assistant
\* message holds the sealed content, and so does the message on screen.
C14_SealedContentDurableAndShown ==
  \A p \in AllProcs :
    ( /\ Stopped(procs[p]) /\ procs[p].messageId # 0
      /\ Quiet /\ NoClicks /\ NoFault /\ activeChatId = procs[p].chatId )
      => DurableSealed(p) /\ ShownSealed(p)

\* ----------------------------------------------------------------- C15
\* the stream of pr signalled done once, as its last callback, and returned
CleanDone(pr) ==
  /\ pr.pc = "end" /\ ~pr.aborted
  /\ CountOf(pr.calls, "done") = 1 /\ CountOf(pr.calls, "error") = 0
  /\ pr.calls[Len(pr.calls)] = "done"

\* C15 as claimed: whatever the order in which the writes issued for the
\* message of a submit complete, once all of them have completed (none failed)
\* the record holds the final content of the session.
C15_DurableIsFinalContent ==
  \A p \in AllProcs :
    ( /\ procs[p].kind = "submit" /\ CleanDone(procs[p]) /\ procs[p].messageId # 0
      /\ procs[p].acc # <<>> /\ writes = EmptyBag /\ NoFault /\ NoClicks )
      => /\ HasRow(db, procs[p].messageId)
         /\ db[Durable(db, procs[p].messageId)].message
              = FinalContent(procs[p].acc, procs[p].cites, procs[p].isWebSearch)

\* ----------------------------------------------------------------- C16
\* getChatCompletionStream has returned without ever reading the body
FailedBeforeBody(pr) == pr.pc = "end" /\ ~pr.listening /\ ~pr.aborted

\* C16: when the API key is missing or the response is non-success,
\* getChatCompletionStream reports the error as its only callback and returns
\* without reading the body; no callback of that invocation follows.
C16_FailureReportedOnceBeforeEvents ==
  [][ \A p \in Procs :
        /\ (ApiKeyReturn(p, FALSE) \/ FetchReturn(p, "status"))
             => /\ procs'[p].calls = <<"error">>
                /\ procs'[p].received = <<>>
                /\ procs'[p].pc = "end" /\ ~procs'[p].listening
        /\ FailedBeforeBody(procs[p]) => procs'[p].calls = procs[p].calls ]_vars

C16_Witness ==
  \E p \in Procs :
    /\ FailedBeforeBody(procs[p]) /\ procs[p].calls = <<"error">>
    /\ budget.faults < MaxFaults /\ ~isLoading
    /\ \E i \in 1..Len(messages) : messages[i].content = <<ErrorNotice>>

\* ----------------------------------------------------------------- C17
\* the request of p fails before a body is read: non-success status or network
TransportErrorOf(p) == FetchReturn(p, "status") \/ FetchReturn(p, "network")

Placeholders == { <<>>, <<SearchingPlaceholder>> }

\* the transcript ends with the placeholder of the submit
PlaceholderShown(msgs) ==
  /\ Len(msgs) >= 2
  /\ msgs[Len(msgs)].role = "assistant" /\ msgs[Len(msgs)].content \in Placeholders
  /\ msgs[Len(msgs) - 1].role = "user"

\* C17: when the request of a submit fails with a transport error, the step
\* replaces the content of the placeholder by the error notice and changes no
\* other message (the transcript keeps its length), the stream function has
\* returned, and isLoading and isSubmitting are false, so that the guard of
\* the next submit passes.
C17_TransportErrorReplacesPlaceholder ==
  [][ \A p \in Procs :
        (TransportErrorOf(p) /\ procs[p].kind = "submit" /\ PlaceholderShown(messages))
          => /\ messages' = [messages EXCEPT ![Len(messages)] =
                               [@ EXCEPT !.content = <<ErrorNotice>>,
                                         !.messageid = procs[p].messageId]]
             /\ procs'[p].pc = "end" /\ procs'[p].calls = <<"error">>
             /\ ~isLoading' /\ ~isSubmitting' /\ abortController' = 0 ]_vars

C17_Witness ==
  \E p \in Procs :
    /\ procs[p].kind = "submit" /\ procs[p].pc = "end" /\ procs[p].calls = <<"error">>
    /\ ~procs[p].aborted /\ procs[p].messageId # 0
    /\ Len(messages) = 2 /\ messages[1].role = "user"
    /\ messages[2].content = <<ErrorNotice>> /\ messages[2].messageid = procs[p].messageId
    /\ ~isLoading /\ ~isSubmitting

\* ----------------------------------------------------------------- C18
\* the stream of p fails: no key, a transport error, or a failed read
FailureOf(p) == ApiKeyReturn(p, FALSE) \/ TransportErrorOf(p) \/ ReadFail(p)

\* the content of a message whose stream failed
ErrorSealed(acc) == IF acc # <<>> THEN acc \o <<ErrorSuffix>> ELSE <<ErrorNotice>>

\* C18: when the stream of a submit or of a retry fails, the step leaves the
\* message the stream addresses with the accumulated content followed by the
\* error suffix, or with the error notice when nothing was accumulated; when
\* the message has a record, the step issues a write of that same content to
\* it, and it issues no other write; the stream function has returned and
\* isLoading (and, for a submit, isSubmitting) is false.
C18_FailureSealsAndWrites ==
  [][ \A p \in Procs :
        (FailureOf(p) /\ ~procs[p].aborted) =>
          LET sealed == ErrorSealed(procs[p].acc)
          IN /\ HasAddressed(procs[p], messages)
                  => messages'[Addressed(procs[p], messages)].content = sealed
             /\ Len(messages') = Len(messages)
             /\ procs[p].messageId # 0
                  => \E wr \in Issued(writes, writes') :
                        wr.messageid = procs[p].messageId /\ wr.content = sealed
             /\ \A wr \in Issued(writes, writes') : wr.content = sealed
             /\ procs'[p].pc = "end" /\ ~isLoading'
             /\ procs[p].kind = "submit" => ~isSubmitting' ]_vars

\* a retry that failed after "Par" shows "Par" and the error suffix, and the
\* record holds the same
C18_Witness ==
  \E p \in Procs :
    /\ procs[p].kind = "retry" /\ procs[p].pc = "end" /\ ~procs[p].aborted
    /\ procs[p].acc = <<"Par">> /\ CountOf(procs[p].calls, "error") = 1
    /\ HasAddressed(procs[p], messages)
    /\ messages[Addressed(procs[p], messages)].content = <<"Par", ErrorSuffix>>
    /\ HasRow(db, procs[p].messageId)
    /\ db[Durable(db, procs[p].messageId)].message = <<"Par", ErrorSuffix>>
    /\ ~isLoading

\* ----------------------------------------------------------------- C19
\* the store holds the user message of the submit p
UserMessageStored(rows, pr) ==
  \E i \in 1..Len(rows) :
    rows[i].chatid = pr.chatId /\ rows[i].source = "user" /\ rows[i].message = pr.display

\* the completion request of p is sent
Dispatched(p) == procs[p].pc = "apiKey" /\ procs'[p].pc = "fetch"

\* C19 as claimed: the request of a submit is sent only with its user message
\* in the store; when saveMessage fails, the submit ends there: no placeholder
\* is appended, nothing is requested, isLoading and isSubmitting are false.
C19_UserMessageStoredOrSubmitFails ==
  [][ \A p \in Procs :
        /\ (Dispatched(p) /\ procs[p].kind = "submit") => UserMessageStored(db, procs[p])
        /\ SaveUserReturn(p, FALSE)
             => /\ Len(messages') = Len(messages)
                /\ procs'[p].pc = "end"
                /\ ~isLoading' /\ ~isSubmitting' ]_vars

\* ----------------------------------------------------------------- C20
RemoveAt(seq, i) == SubSeq(seq, 1, i - 1) \o SubSeq(seq, i + 1, Len(seq))

\* C20 as claimed: handleDeleteMessage with the identifier of a message, when the delete
\* in the store succeeds, removes that message from the transcript and its
\* record from the store and leaves every other message and record as it
\* was; with no identifier, or when the delete in the store fails, the
\* transcript and the store are unchanged.
C20_DeleteRemovesExactlyOne ==
  [][ \A i \in 1..4, ok \in BOOLEAN :
        DeleteMessage(i, ok) =>
          LET id == messages[i].messageid
          IN IF id # 0 /\ ok
               THEN /\ messages' = RemoveAt(messages, i)
                    /\ ~HasRow(db', id)
                    /\ db' = SelectSeq(db, LAMBDA r : r.messageid # id)
                    /\ Len(db') >= Len(db) - 1
               ELSE messages' = messages /\ db' = db ]_vars

\* ----------------------------------------------------------------- C21
\* C21 as claimed: when the write of an edit has succeeded and the Save handler
\* finishes, the transcript and the store differ from what they were only in
\* the content of the message (the record) with the edited identifier, which
\* is the text entered; the transcript keeps its length and no invocation of
\* a completion request changes.
C21_EditReplacesOnlyContent ==
  [][ \A e \in edits :
        EditReturn(e, TRUE) =>
          /\ Len(messages') = Len(messages)
          /\ \A k \in 1..Len(messages) :
               messages'[k] = IF messages[k].messageid = e.messageid
                                THEN [messages[k] EXCEPT !.content = e.content]
                                ELSE messages[k]
          /\ Len(db') = Len(db)
          /\ \A k \in 1..Len(db) :
               db'[k] = IF db[k].messageid = e.messageid
                          THEN [db[k] EXCEPT !.message = e.content]
                          ELSE db[k]
          /\ procs' = procs ]_vars

\* ----------------------------------------------------------------- C22
\* every message of the transcript before is still there after, in its place
\* and with its role
AllKept(before, after) ==
  /\ Len(after) >= Len(before)
  /\ \A k \in 1..Len(before) : after[k].role = before[k].role

\* C22 as claimed: as long as the user has not deleted a message nor left the
\* conversation, no step takes a message out of the transcript.
C22_NoImplicitRemoval ==
  [][ NoClicks' => AllKept(messages, messages') ]_vars

\* ----------------------------------------------------------------- C23
\* the rows of a chat, in the order of the table
RowsOfChat(rows, chatId) ==
  LET idx == {k \in 1..Len(rows) : rows[k].chatid = chatId}
  IN << Cardinality(idx), [k \in idx |-> Cardinality({j \in idx : j <= k})] >>

\* rs is the rows of the chat as the table holds them
ReadFrom(rs, rows, chatId) ==
  LET n == RowsOfChat(rows, chatId)[1]
      pos == RowsOfChat(rows, chatId)[2]
  IN Len(rs) = n /\ \A k \in DOMAIN pos : rs[pos[k]] = rows[k]

\* msgs is what loadChatMessages makes of the rows of the chat
LoadedFrom(msgs, rows, chatId) ==
  LET n == RowsOfChat(rows, chatId)[1]
      pos == RowsOfChat(rows, chatId)[2]
  IN /\ Len(msgs) = n
     /\ \A k \in DOMAIN pos :
          LET r == rows[k]
              m == msgs[pos[k]]
          IN /\ m.messageid = r.messageid
             /\ m.content = r.message
             /\ (r.source = "user") => (m.role = "user")
             /\ (r.source # "user") => (m.role = "assistant" /\ m.model = r.source)

WrittenLengths(id) ==
  {StrLen(db[k].message) : k \in {j \in 1..Len(db) : db[j].messageid = id}}
    \cup {StrLen(wr.content) : wr \in {x \in BagToSet(writes) : x.messageid = id}}

\* the longest content handed to the store for the record so far
PersistedLength(id) ==
  IF WrittenLengths(id) = {} THEN 0
  ELSE CHOOSE n \in WrittenLengths(id) : \A m \in WrittenLengths(id) : m <= n

\* C24 as claimed: while a stream with a record is in flight, after each event
\* the accumulated content is less than the checkpoint threshold longer than
\* what has been handed to the store.
C24_GapBelowThreshold ==
  \A p \in AllProcs :
    (InFlight(procs[p]) /\ procs[p].messageId # 0 /\ NoFault /\ NoClicks)
      => StrLen(procs[p].acc) - PersistedLength(procs[p].messageId) < CheckpointEvery

\* ----------------------------------------------------------------- C25
\* the step hands the event id, and nothing else, to the callbacks of p
Delivers(p, id) == procs'[p].calls = Append(procs[p].calls, id)

EmptyContentIds == {id \in EventIds : Events[id].content = <<>>}

\* C25 as claimed: a step that delivers an event without content fragment
\* leaves the accumulated content as it was and issues no write, whether the
\* event carries citation fragments or not.
C25_EmptyFragmentNoCheckpoint ==
  [][ \A p \in AllProcs, id \in EmptyContentIds :
        Delivers(p, id) => /\ procs'[p].acc = procs[p].acc
                           /\ Issued(writes, writes') = {} ]_vars

\* ----------------------------------------------------------------- C26
\* C26 as claimed: after a step that delivers an event with content to an
\* invocation, the message the invocation addresses carries the model
\* identifier the server declared in that event.
C26_ModelIsServerDeclared ==
  [][ \A p \in AllProcs, id \in EventIds \ EmptyContentIds :
        (Delivers(p, id) /\ HasAddressed(procs[p], messages) /\ NoClicks)
          => messages'[Addressed(procs[p], messages)].model = Events[id].model ]_vars

\* ----------------------------------------------------------------- C27
\* C27 as claimed: the citations a stream has collected carry the numbers
\* 1..n in the order of their insertion.
C27_CitationsNumberedInOrder ==
  \A p \in AllProcs :
    \A k \in 1..Len(procs[p].cites) : procs[p].cites[k].number = k

\* ----------------------------------------------------------------- C28
\* one line of the Citations block per citation, labelled with its number
RECURSIVE NumberedLines(_)
NumberedLines(sorted) ==
  IF sorted = <<>> THEN <<>>
  ELSE << "[", NumStr(Head(sorted).number), "] ", Head(sorted).title, ": ",
          Head(sorted).url, "\n" >> \o NumberedLines(Tail(sorted))

\* the content a finished submit is to have
Finalized(pr) ==
  IF pr.isWebSearch /\ Len(pr.cites) > 0
    THEN pr.acc \o <<CitationsHeader>> \o NumberedLines(SortByNumber(pr.cites))
    ELSE pr.acc

\* the stream of p signals done for the first time
FirstDone(p) == Delivers(p, "done") /\ ~Signalled(procs[p])

\* C28 as claimed: when the stream of a submit with a record signals done, the
\* write the step issues carries the finalized content: for a web search with
\* citations the accumulated content followed by the Citations header and one
\* line per citation, in the order of the numbers and labelled with the
\* number; otherwise the accumulated content.
C28_FinalContentWritten ==
  [][ \A p \in AllProcs :
        ( FirstDone(p) /\ procs[p].kind = "submit" /\ procs[p].messageId # 0
          /\ Finalized(procs[p]) # <<>> )
          => \E wr \in Issued(writes, writes') :
                wr.messageid = procs[p].messageId /\ wr.content = Finalized(procs[p]) ]_vars

\* ----------------------------------------------------------------- C29
\* the rows of the table that carry the identifier
RowsWithId(rows, id) == {k \in 1..Len(rows) : rows[k].messageid = id}

\* the step is the return of saveStreamingMessage to the submit p
Allocates(p) == procs[p].pc = "saveAsst" /\ procs'[p].pc # "saveAsst"

\* C29 as claimed: for a submit, the return of saveStreamingMessage is the only step that
\* creates a record for the assistant message, and the identifier it returns
\* is the one of the new record; every write the submit issues afterwards
\* is keyed by that identifier, and at the step that issues it the message
\* the stream addresses carries the identifier; no step adds a second record
\* with the identifier.
C29_OneRecordPerAnswer ==
  [][ \A p \in AllProcs :
        procs[p].kind = "submit" =>
          /\ (Allocates(p) /\ procs'[p].messageId # 0)
               => /\ Len(db') = Len(db) + 1
                  /\ db'[Len(db')].messageid = procs'[p].messageId
                  /\ RowsWithId(db, procs'[p].messageId) = {}
          /\ ~Allocates(p) => procs'[p].messageId = procs[p].messageId
          /\ \A wr \in Issued(writes, writes') :
               wr.proc = p =>
                 /\ wr.messageid = procs[p].messageId /\ wr.messageid # 0
                 /\ Len(db') = Len(db)
                 /\ HasAddressed(procs[p], messages')
                 /\ messages'[Addressed(procs[p], messages')].messageid = procs[p].messageId
          /\ Cardinality(RowsWithId(db', procs'[p].messageId)) <= 1 ]_vars

\* ----------------------------------------------------------------- C30
\* the final write of the invocation p has been issued and has not completed
FinalWritePending(p) ==
  \E wr \in BagToSet(writes) : wr.proc = p /\ wr.kind \in {"final", "retryfinal"}

\* C30 as claimed: while the final write of a stream that signalled done (and
\* was neither stopped nor failed) has not completed, isLoading is true.
C30_IdleAfterFinalWrite ==
  \A p \in AllProcs :
    ( /\ CountOf(procs[p].calls, "done") >= 1 /\ CountOf(procs[p].calls, "error") = 0
      /\ ~procs[p].aborted /\ FinalWritePending(p) )
      => isLoading

\* ---------------------------------------------------------------- C31
\* C31 (as stated): when a retry of turn index is accepted, the content of the
\* assistant message at index + 1 is empty from then until the first event of
\* the new stream is processed.
C31_ContentResetToEmpty ==
  [][\A index \in 0..3 :
       RetryTaken(index) /\ messages[index + 2].role = "assistant"
         => messages'[index + 2].content = <<>>]_vars

\* the transcript of a retry whose stream has delivered no event yet
AwaitingFirstEvent(p) ==
  /\ procs[p].kind = "retry" /\ procs[p].pc \in {"apiKey", "fetch", "read"}
  /\ procs[p].calls = <<>> /\ ~procs[p].aborted

\* C31 (amended): an accepted retry of turn index replaces the content of the
\* assistant message at index + 1 by the notice 'Regenerating...', changes
\* nothing else in the transcript, and starts its accumulation empty; a message
\* at index + 1 that is not an assistant message is left as it is.
C31_ContentResetToNotice ==
  [][\A index \in 0..3 :
       RetryTaken(index)
         => /\ messages' = ShowRegenerating(messages, index)
            /\ messages[index + 2].role = "assistant"
                 => /\ messages'[index + 2].content = <<RegeneratingPlaceholder>>
                    /\ \A k \in 1..Len(messages) :
                         k # index + 2 => messages'[k] = messages[k]
            /\ \E p \in Procs :
                 /\ procs[p].kind = "none" /\ procs'[p].kind = "retry"
                 /\ procs'[p].acc = <<>> /\ procs'[p].calls = <<>>
                 /\ procs'[p].index = index]_vars

C31_Witness ==
  \E p \in Procs :
    /\ AwaitingFirstEvent(p)
    /\ procs[p].index + 2 \in 1..Len(messages)
    /\ messages[procs[p].index + 2].role = "assistant"
    /\ messages[procs[p].index + 2].content = <<RegeneratingPlaceholder>>

\* ---------------------------------------------------------------- C32
\* a step of the retry p: its acceptance, a callback of its stream, its return
RetryStep(p) ==
  /\ procs'[p] # procs[p]
  /\ procs'[p].kind = "retry"

\* a step in which a write issued by the retry p completes
RetryWriteStep(p) ==
  /\ procs[p].kind = "retry"
  /\ \E wr \in BagToSet(writes) :
       /\ wr.proc = p
       /\ writes' = writes (-) SetToBag({wr})

\* the identifiers of the records, in table order
RecordIds(rows) == [i \in 1..Len(rows) |-> rows[i].messageid]

\* the transcript but for the message at 1-based position k
SameButAt(before, after, k) ==
  /\ Len(after) = Len(before)
  /\ \A j \in 1..Len(before) : j # k => after[j] = before[j]

C33_NoAccumulationAfterCancel ==
  [][\A p \in AllProcs :
       (procs[p].aborted \/ procs'[p].aborted)
         => /\ procs'[p].acc = procs[p].acc
            /\ \A id \in EventIds : ~Delivers(p, id)]_vars

\* a stream stopped after it had accumulated content, while the network still
\* had chunks to deliver
C33_Witness ==
  \E p \in AllProcs :
    /\ procs[p].aborted /\ procs[p].acc # <<>> /\ procs[p].pc = "end"
    /\ ~(\E i \in 1..Len(procs[p].calls) : procs[p].calls[i] = "done")
    /\ budget.reads > 0

\* ---------------------------------------------------------------- C34
\* the content fragments of a sequence of events, concatenated in order
RECURSIVE Fragments(_)
Fragments(ids) ==
  IF ids = <<>> THEN <<>>
  ELSE Fragments(SubSeq(ids, 1, Len(ids) - 1)) \o Events[ids[Len(ids)]].content

IsPrefix(a, b) == Len(a) <= Len(b) /\ a = SubSeq(b, 1, Len(a))

ReceivedEvents(pr) == ValidEvents(pr.received, LineCount(pr.received))

\* C34 (as stated): at every point the accumulated content of a stream is the
\* concatenation, in stream order, of the content fragments of the valid data
\* lines received so far.
C34_AccumulatedIsAllReceived ==
  \A p \in AllProcs :
    procs[p].kind # "none" => procs[p].acc = Fragments(ReceivedEvents(procs[p]))

\* C34 (amended): at every point the accumulated content is the concatenation
\* of the fragments of the events delivered so far; the events delivered are an
\* initial part, in order, of the events of the valid data lines received; and
\* they are all of them as long as no sentinel line has been received.
C34_AccumulatedInArrivalOrder ==
  \A p \in AllProcs :
    procs[p].kind # "none"
      => /\ procs[p].acc = Fragments(EventsIn(procs[p].calls))
         /\ IsPrefix(EventsIn(procs[p].calls), ReceivedEvents(procs[p]))
         /\ ~HasSentinel(procs[p].received)
              => EventsIn(procs[p].calls) = ReceivedEvents(procs[p])

\* two different fragments arrived in several reads and were accumulated in
\* the order of their lines
C34_Witness ==
  \E p \in AllProcs :
    /\ ReceivedEvents(procs[p]) = <<"eL", "eP">>
    /\ ~HasSentinel(procs[p].received)
    /\ procs[p].acc = Events["eL"].content \o Events["eP"].content
    /\ procs[p].body = <<>>

\* ---------------------------------------------------------------- C35
TerminalCalls(pr) == {i \in 1..Len(pr.calls) : IsTerminal(pr.calls[i])}

\* getChatCompletionStream is running
InStream(pr) == pr.pc \in {"apiKey", "fetch", "read"}

\* C35: every call of getChatCompletionStream invokes at most one terminal
\* callback, exactly one by the time it returns (whether by sentinel and end
\* of data, end of data alone, a failure, or an abort before or during
\* streaming), and never invokes a callback after it.
C35_ExactlyOneTerminalOutcome ==
  [][\A p \in AllProcs :
       LET pr == procs'[p]
       IN /\ Cardinality(TerminalCalls(pr)) <= 1
          /\ (InStream(procs[p]) /\ pr.pc = "end") => Cardinality(TerminalCalls(pr)) = 1
          /\ \A i \in TerminalCalls(pr) : i = Len(pr.calls)]_vars

\* ---------------------------------------------------------------- C36
\* C36: while a stream is in flight (called and not yet at a terminal
\* callback), isLoading is true and the stored abort controller is the
\* controller of that stream.
C36_ControllerOfStreamInFlight ==
  \A p \in AllProcs :
    InFlight(procs[p]) => isLoading /\ abortController = p

\* ---------------------------------------------------------------- C37
\* the stop button is pressed on the stream p after it has signalled done
AbortAfterDone(p) ==
  Abort /\ abortController = p /\ CountOf(procs[p].calls, "done") > 0

\* C37: a cancel of a stream that has signalled done changes no message of
\* the transcript and issues no write to the durable record.
C37_CancelAfterDoneChangesNothing ==
  [][\A p \in AllProcs :
       AbortAfterDone(p)
         => /\ messages' = messages
            /\ Issued(writes, writes') = {}]_vars

\* ---------------------------------------------------------------- C38
\* the record with identifier id holds a user message
IsUserRecord(rows, id) ==
  \E i \in 1..Len(rows) : rows[i].messageid = id /\ rows[i].source = "user"

\* C38: no write that a retry issues is keyed by the identifier of the record
\* of a user message, and no user message's record ever holds anything but
\* what the user sent.
C38_RetryWritesAssistantRecord ==
  [][\A p \in AllProcs :
       /\ RetryStep(p)
            => \A wr \in Issued(writes, writes') : ~IsUserRecord(db, wr.messageid)
       /\ RetryWriteStep(p)
            => \A i \in 1..Len(db) :
                 db[i].source = "user" => db'[i].message = db[i].message]_vars

\* ---------------------------------------------------------------- C39
\* the message is the one of a record of another conversation than chatId
OfOtherChat(rows, m, chatId) ==
  \E i \in 1..Len(rows) : rows[i].messageid = m.messageid /\ rows[i].chatid # chatId

\* a callback of the stream of p is invoked
CallbackOf(p) == procs'[p].calls # procs[p].calls

\* the conversation of the record the stream of pr persists under
ChatOfStream(rows, pr) == rows[Durable(rows, pr.messageId)].chatid

\* C39: a callback of a stream started for one conversation leaves every
\* message of another conversation that the transcript holds (after the user
\* selected that conversation and it was loaded) as it is: content, model and
\* identifier.
C39_OtherConversationUntouched ==
  [][\A p \in AllProcs :
       (CallbackOf(p) /\ HasRow(db, procs[p].messageId))
         => \A i \in 1..Len(messages) :
              OfOtherChat(db, messages[i], ChatOfStream(db, procs[p]))
                => /\ i <= Len(messages')
                   /\ messages'[i].content = messages[i].content
                   /\ messages'[i].model = messages[i].model
                   /\ messages'[i].messageid = messages[i].messageid]_vars

\* ---------------------------------------------------------------- C40
\* the callbacks the stream of p would have invoked had the bytes of text
\* arrived in a single read
OneRead(p, text) ==
  LET fresh == [NoProc EXCEPT !.kind = procs[p].kind, !.pc = "read",
                              !.chatId = procs[p].chatId, !.model = procs[p].model,
                              !.index = procs[p].index, !.buffer = text,
                              !.received = text]
  IN ProcessLines([World EXCEPT !.procs[p] = fresh], p).procs[p].calls

\* the buffer holds the beginning of a line that is not complete yet
PartialLine(pr) == pr.buffer # <<>> /\ IndexOfNewline(pr.buffer) = 0

\* C40: as long as no sentinel has been received, the events delivered to
\* onChunk are those a single read of the same bytes delivers, in the same
\* order, however the bytes were split into chunks; the part of a line that
\* has arrived without its line feed is held back and delivers nothing.
C40_ChunkingIndependent ==
  \A p \in AllProcs :
    (procs[p].kind # "none" /\ ~HasSentinel(procs[p].received))
      => /\ EventsIn(procs[p].calls) = EventsIn(OneRead(p, procs[p].received))
         /\ procs[p].pc = "read"
              => procs[p].buffer
                   = SubSeq(procs[p].received,
                            LineEnd(procs[p].received, LineCount(procs[p].received)) + 1,
                            Len(procs[p].received))

\* a body of two events whose second data line is cut inside its payload: the
\* first event was delivered, the cut line waits in the buffer for its rest
C40_Witness ==
  \E p \in AllProcs :
    /\ procs[p].pc = "read" /\ PartialLine(procs[p])
    /\ procs[p].received = Line(Serialize("eL")) \o DataPrefix \o <<"{", "eP">>
    /\ procs[p].calls = <<"eL">>
    /\ procs[p].body = <<"}", "\n">>

====
